---- MODULE Spec2Model ----
(***************************************************************************)
(* Model of src/main.py: the three field extractors (PostalCodeExtractor,  *)
(* CityExtractor, ClinicExtractor), the page loop Scraper.scrape_data and  *)
(* the module-level block that writes the CSV file.                        *)
(*                                                                         *)
(* Text is a sequence of one-character strings.  A Python value that may   *)
(* be None is the empty sequence (None) or a one-element sequence holding  *)
(* the value (Some(v)).                                                    *)
(***************************************************************************)
EXTENDS Integers, Sequences, FiniteSets, TLC

VARIABLES
    pc,           \* the statement the run is at
    site,         \* the responses the server may give to a GET
    page_num,     \* loop variable of scrape_data
    results,      \* result blocks of the page being processed
    idx,          \* position in results of the block processed next
    clinics,      \* the accumulator of scrape_data
    log,          \* the lines printed so far
    file,         \* rows of clinics-python.csv
    next_row,     \* position in the returned list of the row written next
    requests,     \* page numbers of the GETs issued so far
    served,       \* the response to each GET issued so far
    address,      \* argument of a PostalCodeExtractor.extract call
    postal_code   \* what that call returned

vars == <<pc, site, page_num, results, idx, clinics, log, file, next_row,
          requests, served, address, postal_code>>

scraperVars == <<site, page_num, results, idx, clinics, log, file, next_row,
                 requests, served>>

(***************************************************************************)
(* Bounds of the model.                                                    *)
(***************************************************************************)
MaxPages == 3
MaxTokens == 4
MaxAnchors == 2

(***************************************************************************)
(* Python values.                                                          *)
(***************************************************************************)
None == <<>>
Some(v) == <<v>>
IsNone(o) == Len(o) = 0
Get(o) == o[1]

(***************************************************************************)
(* Character classes of Python's str and re for the characters used here.  *)
(***************************************************************************)
Whitespace == {" "}
Punctuation == {",", ":", "/", ".", "?", "=", "-"}
Digits == {"0", "1", "2", "3", "4", "5", "6", "7", "8", "9"}

\* \d of re
IsDigit(c) == c \in Digits

\* \w of re: letters, digits and the underscore
IsWord(c) == c \notin (Whitespace \cup Punctuation)

\* str.isspace, as used by str.strip() and str.split() without arguments
IsSpace(c) == c \in Whitespace

(***************************************************************************)
(* str.strip(), str.split() and substring search.                          *)
(***************************************************************************)
RECURSIVE LStrip(_)
LStrip(s) ==
    IF s = <<>> THEN <<>>
    ELSE IF IsSpace(Head(s)) THEN LStrip(Tail(s)) ELSE s

RECURSIVE RStrip(_)
RStrip(s) ==
    IF s = <<>> THEN <<>>
    ELSE IF IsSpace(s[Len(s)]) THEN RStrip(SubSeq(s, 1, Len(s) - 1)) ELSE s

\* str.strip()
Strip(s) == RStrip(LStrip(s))

\* str.split(): the maximal runs of non-whitespace characters, in order.
\* cur is the word being read, words the words already closed.
RECURSIVE SplitFrom(_, _, _)
SplitFrom(s, cur, words) ==
    IF s = <<>> THEN (IF cur = <<>> THEN words ELSE Append(words, cur))
    ELSE IF IsSpace(Head(s))
         THEN SplitFrom(Tail(s), <<>>,
                        IF cur = <<>> THEN words ELSE Append(words, cur))
         ELSE SplitFrom(Tail(s), Append(cur, Head(s)), words)

Split(s) == SplitFrom(s, <<>>, <<>>)

\* pattern.search(s) for a pattern of literal characters
Search(pat, s) ==
    \E i \in 1..(Len(s) - Len(pat) + 1) : SubSeq(s, i, i + Len(pat) - 1) = pat

(***************************************************************************)
(* PostalCodeExtractor.extract: re.search(r'\b\d{4}\b', address).          *)
(***************************************************************************)
\* variant: an edge between a digit and anything that is not a digit
WordBoundary_DigitEdge(s, p) ==
    LET before == p >= 1 /\ IsDigit(s[p])
        after == p < Len(s) /\ IsDigit(s[p + 1])
    IN  before # after

\* \b between position p and p + 1 of s (p = 0: the start, p = Len(s): the end)
WordBoundary(s, p) ==
    LET before == p >= 1 /\ IsWord(s[p])
        after == p < Len(s) /\ IsWord(s[p + 1])
    IN  before # after

\* the pattern matches with its first character at position i
MatchAt(s, i) ==
    /\ i + 3 <= Len(s)
    /\ WordBoundary(s, i - 1)
    /\ \A k \in i..(i + 3) : IsDigit(s[k])
    /\ WordBoundary(s, i + 3)

\* re.search tries the start positions from left to right
RECURSIVE SearchFrom(_, _)
SearchFrom(s, i) ==
    IF i > Len(s) THEN None
    ELSE IF MatchAt(s, i) THEN Some(SubSeq(s, i, i + 3))
    ELSE SearchFrom(s, i + 1)

PostalCodeExtractor(addr) == SearchFrom(addr, 1)

(***************************************************************************)
(* CityExtractor.extract: words[-1] of address.strip().split(); an         *)
(* IndexError when there is no word.                                       *)
(***************************************************************************)
\* variant: no word gives the empty text instead of an IndexError
CityExtractor_NoFault(addr) ==
    LET words == Split(Strip(addr))
    IN  [fault |-> FALSE,
         value |-> IF words = <<>> THEN <<>> ELSE words[Len(words)]]

CityExtractor(addr) ==
    LET words == Split(Strip(addr))
    IN  IF words = <<>> THEN [fault |-> TRUE, value |-> <<>>]
        ELSE [fault |-> FALSE, value |-> words[Len(words)]]

(***************************************************************************)
(* Result blocks.  A block has at most one title element and one address   *)
(* element (their text, or None when the element is missing) and its `a`   *)
(* elements in document order, each with its href and data-overlay-label   *)
(* attributes (None when the attribute is missing).                        *)
(***************************************************************************)
Anchor(href, label) == [href |-> href, label |-> label]
Block(title, addr, anchors) == [title |-> title, address |-> addr, anchors |-> anchors]

\* result.find('a', {'href': re.compile(pat)}): the first `a` element that
\* has an href in which the pattern is found
RECURSIVE FindAnchor(_, _)
FindAnchor(anchors, pat) ==
    IF anchors = <<>> THEN None
    ELSE IF ~IsNone(Head(anchors).href) /\ Search(pat, Get(Head(anchors).href))
         THEN Some(Head(anchors))
         ELSE FindAnchor(Tail(anchors), pat)

TelPattern == <<"t", "e", "l">>
HttpPattern == <<"h", "t", "t", "p">>

NameDiagnostic == "Failed to extract name from result"
AddressDiagnostic == "Failed to extract address from result"

\* variant: the first test does not return
RequiredDiagnostics_NoEarlyReturn(name, addr) ==
    (IF IsNone(name) THEN <<NameDiagnostic>> ELSE <<>>)
        \o (IF IsNone(addr) THEN <<AddressDiagnostic>> ELSE <<>>)

\* the two tests of the required elements: the lines they print
RequiredDiagnostics(name, addr) ==
    IF IsNone(name) THEN <<NameDiagnostic>>
    ELSE IF IsNone(addr) THEN <<AddressDiagnostic>>
    ELSE <<>>

\* ClinicExtractor.extract: fault is TRUE when an exception leaves the call,
\* ret is the returned value (None or the dict), diag the lines printed
ClinicExtractor(block) ==
    LET name == block.title
        addr == block.address
        telephone == FindAnchor(block.anchors, TelPattern)
        website == FindAnchor(block.anchors, HttpPattern)
        diag == RequiredDiagnostics(name, addr)
    IN  IF IsNone(name) \/ IsNone(addr)
        THEN [fault |-> FALSE, ret |-> None, diag |-> diag]
        ELSE LET phone == IF IsNone(telephone) THEN None ELSE Get(telephone).href
                 data_overlay_label ==
                     IF IsNone(telephone) THEN None ELSE Get(telephone).label
                 site_href == IF IsNone(website) THEN None ELSE Get(website).href
                 city == CityExtractor(Get(addr))
             IN  IF city.fault
                 THEN [fault |-> TRUE, ret |-> None, diag |-> diag]
                 ELSE [fault |-> FALSE,
                       ret |-> Some([name |-> Some(Strip(Get(name))),
                                     address |-> Some(Strip(Get(addr))),
                                     postcode |-> PostalCodeExtractor(Get(addr)),
                                     city |-> Some(city.value),
                                     phone |-> phone,
                                     data_overlay_label |-> data_overlay_label,
                                     website |-> site_href]),
                       diag |-> diag]

(***************************************************************************)
(* The CSV writer: csv.DictWriter with the seven field names.              *)
(***************************************************************************)
fieldnames == <<"name", "address", "postcode", "city",
                "phone", "data_overlay_label", "website">>

\* variant: None is written as str(None)
Cell_NoneAsText(v) == IF IsNone(v) THEN <<"N", "o", "n", "e">> ELSE Get(v)

\* what the writer puts in a cell: None is written as the empty string
Cell(v) == IF IsNone(v) THEN <<>> ELSE Get(v)

\* writer.writerow(clinic): the values in the order of fieldnames
Row(clinic) == [i \in 1..Len(fieldnames) |-> Cell(clinic[fieldnames[i]])]

\* the spelling of each field name
FieldText ==
    [name |-> <<"n", "a", "m", "e">>,
     address |-> <<"a", "d", "d", "r", "e", "s", "s">>,
     postcode |-> <<"p", "o", "s", "t", "c", "o", "d", "e">>,
     city |-> <<"c", "i", "t", "y">>,
     phone |-> <<"p", "h", "o", "n", "e">>,
     data_overlay_label |-> <<"d", "a", "t", "a", "_", "o", "v", "e", "r", "l",
                              "a", "y", "_", "l", "a", "b", "e", "l">>,
     website |-> <<"w", "e", "b", "s", "i", "t", "e">>]

\* writer.writeheader(): the field names themselves
HeaderRow == [i \in 1..Len(fieldnames) |-> FieldText[fieldnames[i]]]

(***************************************************************************)
(* Responses to requests.get.  A transport failure raises instead of       *)
(* returning; an HTTP response has a status code and, in its body, the     *)
(* result blocks that soup.find_all will find.                             *)
(***************************************************************************)
StatusOK == 200
FailureStatuses == {404, 500}

TransportFailure == [kind |-> "transport", status |-> 0, blocks |-> <<>>]
Http(status, blocks) == [kind |-> "http", status |-> status, blocks |-> blocks]

\* the lines of print(): the text, and the page and status code it names
Line(msg, page, code) == [msg |-> msg, page |-> page, code |-> code]

StatusLine(page, code) == Line("Status code for page", page, code)
FailedLine(page) == Line("Failed to retrieve data from page", page, 0)
NoResultsLine(page) == Line("No results found for URL", page, 0)
CompletedLine == Line("Scraping completed.", 0, 0)
ExtractorLines(diag) == [i \in 1..Len(diag) |-> Line(diag[i], 0, 0)]

(***************************************************************************)
(* The module-level block and Scraper.scrape_data.                         *)
(***************************************************************************)
\* variant: mode 'a', the file keeps what it held
OpenFile_Append ==
    /\ pc = "open"
    /\ pc' = "header"
    /\ UNCHANGED <<scraperVars, address, postal_code>>

\* open('clinics-python.csv', 'w', newline=''): the file is truncated
OpenFile ==
    /\ pc = "open"
    /\ file' = <<>>
    /\ pc' = "header"
    /\ UNCHANGED <<site, page_num, results, idx, clinics, log, next_row,
                   requests, served, address, postal_code>>

\* writer.writeheader()
WriteHeader ==
    /\ pc = "header"
    /\ file' = Append(file, HeaderRow)
    /\ pc' = "scrape"
    /\ UNCHANGED <<site, page_num, results, idx, clinics, log, next_row,
                   requests, served, address, postal_code>>

\* the call scraper.scrape_data(): clinics = [] and the first value of range
StartScrape ==
    /\ pc = "scrape"
    /\ clinics' = <<>>
    /\ page_num' = 1
    /\ pc' = "fetch"
    /\ UNCHANGED <<site, results, idx, log, file, next_row,
                   requests, served, address, postal_code>>

\* one pass of the page loop up to the block loop, for the response resp
FetchResponse(resp) ==
    /\ requests' = Append(requests, page_num)
    /\ served' = Append(served, resp)
    /\ IF resp.kind = "transport"
       THEN \* requests.get raises; nothing catches it
            /\ pc' = "faulted"
            /\ UNCHANGED <<page_num, results, idx, log>>
       ELSE IF resp.status # StatusOK
       THEN /\ log' = log \o <<StatusLine(page_num, resp.status),
                               FailedLine(page_num)>>
            /\ page_num' = page_num + 1
            /\ pc' = "fetch"
            /\ UNCHANGED <<results, idx>>
       ELSE IF resp.blocks = <<>>
       THEN /\ log' = log \o <<StatusLine(page_num, resp.status),
                               NoResultsLine(page_num)>>
            /\ results' = resp.blocks
            /\ page_num' = page_num + 1
            /\ pc' = "fetch"
            /\ UNCHANGED idx
       ELSE /\ log' = Append(log, StatusLine(page_num, resp.status))
            /\ results' = resp.blocks
            /\ idx' = 1
            /\ pc' = "blocks"
            /\ UNCHANGED page_num

Fetch ==
    /\ pc = "fetch"
    /\ page_num <= MaxPages
    /\ \E resp \in site : FetchResponse(resp)
    /\ UNCHANGED <<site, clinics, file, next_row, address, postal_code>>

\* variant: clinics.insert(0, clinic)
Accumulate_Prepend(list, clinic) == <<clinic>> \o list

\* clinics.append(clinic)
Accumulate(list, clinic) == Append(list, clinic)

\* one pass of the block loop
ProcessBlock ==
    /\ pc = "blocks"
    /\ \E out \in {ClinicExtractor(results[idx])} :
           IF out.fault
           THEN \* the exception leaves scrape_data and the with block
                /\ pc' = "faulted"
                /\ UNCHANGED <<page_num, idx, clinics, log>>
           ELSE /\ log' = log \o ExtractorLines(out.diag)
                /\ clinics' = IF IsNone(out.ret) THEN clinics
                              ELSE Accumulate(clinics, Get(out.ret))
                /\ IF idx < Len(results)
                   THEN /\ idx' = idx + 1
                        /\ UNCHANGED <<pc, page_num>>
                   ELSE /\ page_num' = page_num + 1
                        /\ pc' = "fetch"
                        /\ UNCHANGED idx
    /\ UNCHANGED <<site, results, file, next_row, requests, served,
                   address, postal_code>>

\* range is exhausted: print('Scraping completed.') and return clinics
Complete ==
    /\ pc = "fetch"
    /\ page_num > MaxPages
    /\ log' = Append(log, CompletedLine)
    /\ next_row' = 1
    /\ pc' = "write"
    /\ UNCHANGED <<site, page_num, results, idx, clinics, file,
                   requests, served, address, postal_code>>

\* one pass of the loop over the returned list
WriteRow ==
    /\ pc = "write"
    /\ next_row <= Len(clinics)
    /\ file' = Append(file, Row(clinics[next_row]))
    /\ next_row' = next_row + 1
    /\ UNCHANGED <<pc, site, page_num, results, idx, clinics, log,
                   requests, served, address, postal_code>>

\* the loop is over: the with block closes the file and the module ends
CloseFile ==
    /\ pc = "write"
    /\ next_row > Len(clinics)
    /\ pc' = "exited"
    /\ UNCHANGED <<scraperVars, address, postal_code>>

Next == OpenFile \/ WriteHeader \/ StartScrape \/ Fetch \/ ProcessBlock
            \/ Complete \/ WriteRow \/ CloseFile

(***************************************************************************)
(* Inputs: texts, anchors, result blocks, pages and responses.             *)
(***************************************************************************)
SeqsUpTo(S, n) == UNION {[1..k -> S] : k \in 0..n}

RECURSIVE Flatten(_)
Flatten(parts) ==
    IF parts = <<>> THEN <<>> ELSE Head(parts) \o Flatten(Tail(parts))

\* pieces of address text: two four-digit runs, a digit, a letter, an
\* underscore, a space and a comma
Tokens == {<<"1", "2", "3", "4">>, <<"5", "6", "7", "8">>, <<"9">>,
           <<"a">>, <<"_">>, <<" ">>, <<",">>}

AddressTexts == {Flatten(parts) : parts \in SeqsUpTo(Tokens, MaxTokens)}

TitlePadded == <<" ", "A", " ">>
TitlePlain == <<"C">>
TitleBlank == <<" ">>
AddressFull == <<" ", "W", " ", "8", "0", "0", "1", " ", "B", "e", " ">>
AddressNoCode == <<"W", " ", "B">>
AddressBlank == <<" ">>

TelHref == <<"t", "e", "l", ":", "1">>
HttpHref == <<"h", "t", "t", "p", ":", "x">>
HotelHref == <<"/", "h", "o", "t", "e", "l">>
PlainHref == <<"/", "x">>
Label == <<"L">>

TelAnchor == Anchor(Some(TelHref), Some(Label))
TelAnchorNoLabel == Anchor(Some(TelHref), None)
HttpAnchor == Anchor(Some(HttpHref), None)
HotelAnchor == Anchor(Some(HotelHref), None)
PlainAnchor == Anchor(Some(PlainHref), None)
NoHrefAnchor == Anchor(None, Some(Label))

Anchors == {TelAnchor, TelAnchorNoLabel, HttpAnchor, HotelAnchor,
            PlainAnchor, NoHrefAnchor}

Titles == {None, Some(<<>>), Some(TitleBlank), Some(TitlePadded)}
Addresses == {None, Some(<<>>), Some(AddressBlank), Some(AddressFull),
              Some(AddressNoCode)}

\* every block built from these titles, addresses and anchors
Blocks ==
    {Block(t, a, an) : t \in Titles, a \in Addresses,
                       an \in SeqsUpTo(Anchors, MaxAnchors)}

FullBlock == Block(Some(TitlePadded), Some(AddressFull), <<TelAnchor, HttpAnchor>>)
BareBlock == Block(Some(TitlePlain), Some(AddressNoCode), <<>>)
NoTitleBlock == Block(None, Some(AddressFull), <<TelAnchor>>)
NoAddressBlock == Block(Some(TitlePlain), None, <<HttpAnchor>>)
EmptyBlock == Block(None, None, <<>>)
BlankTitleBlock == Block(Some(TitleBlank), Some(AddressFull), <<>>)
BlankAddressBlock == Block(Some(TitlePlain), Some(AddressBlank), <<TelAnchor>>)
HotelBlock == Block(Some(TitlePlain), Some(AddressFull), <<HotelAnchor>>)

\* the result blocks of the pages a directory may serve
Pages ==
    {<<>>,
     <<FullBlock, BareBlock>>,
     <<BareBlock, FullBlock>>,
     <<NoTitleBlock, FullBlock>>,
     <<BareBlock, NoAddressBlock, EmptyBlock, FullBlock>>,
     <<BlankTitleBlock>>,
     <<FullBlock, BlankAddressBlock, BareBlock>>,
     <<HotelBlock>>}

\* a transport failure, failure statuses with an empty body or a body with
\* result blocks, and the success status with each page
Responses ==
    {TransportFailure}
        \cup {Http(st, <<>>) : st \in FailureStatuses}
        \cup {Http(st, <<FullBlock>>) : st \in FailureStatuses}
        \cup {Http(StatusOK, p) : p \in Pages}

StaleFile == <<<<<<"o", "l", "d">>>>>>

(***************************************************************************)
(* Spec: a run of the module against a server that may give any of         *)
(* Responses to each GET.                                                  *)
(***************************************************************************)
Idle ==
    /\ page_num = 0
    /\ results = <<>>
    /\ idx = 0
    /\ clinics = <<>>
    /\ log = <<>>
    /\ next_row = 0
    /\ requests = <<>>
    /\ served = <<>>

Init ==
    /\ pc = "open"
    /\ site = Responses
    /\ file \in {<<>>, StaleFile}
    /\ Idle
    /\ address = <<>>
    /\ postal_code = None

Spec == Init /\ [][Next]_vars

(***************************************************************************)
(* LiveSpec: the same run with progress: the statements follow one another *)
(* and every GET returns or raises.  The server gives one of LiveResponses.*)
(***************************************************************************)
LiveResponses ==
    {TransportFailure,
     Http(404, <<FullBlock>>),
     Http(StatusOK, <<>>),
     Http(StatusOK, <<FullBlock, BareBlock>>),
     Http(StatusOK, <<NoTitleBlock, HotelBlock>>),
     Http(StatusOK, <<FullBlock, BlankAddressBlock, BareBlock>>)}

LiveInit ==
    /\ pc = "open"
    /\ site = LiveResponses
    /\ file \in {<<>>, StaleFile}
    /\ Idle
    /\ address = <<>>
    /\ postal_code = None

LiveSpec == LiveInit /\ [][Next]_vars /\ WF_vars(Next)

(***************************************************************************)
(* BlockSpec: a run against a server whose every page holds one block of   *)
(* Blocks followed by BareBlock.                                           *)
(***************************************************************************)
BlockInit ==
    /\ pc = "open"
    /\ \E b \in Blocks : site = {Http(StatusOK, <<b, BareBlock>>)}
    /\ file \in {<<>>, StaleFile}
    /\ Idle
    /\ address = <<>>
    /\ postal_code = None

BlockSpec == BlockInit /\ [][Next]_vars

(***************************************************************************)
(* PostalSpec: one call of PostalCodeExtractor.extract on a text of        *)
(* AddressTexts.                                                           *)
(***************************************************************************)
PostalInit ==
    /\ pc = "postal"
    /\ site = {}
    /\ file = <<>>
    /\ Idle
    /\ address \in AddressTexts
    /\ postal_code = None

ExtractPostal ==
    /\ pc = "postal"
    /\ postal_code' = PostalCodeExtractor(address)
    /\ pc' = "postal_done"
    /\ UNCHANGED <<scraperVars, address>>

PostalNext == ExtractPostal

PostalSpec == PostalInit /\ [][PostalNext]_vars

(***************************************************************************)
(* Helpers of the properties.                                              *)
(***************************************************************************)
Stopped == pc \in {"faulted", "write", "exited"}
Completed == \E i \in 1..Len(log) : log[i] = CompletedLine
Printed(line) == \E i \in 1..Len(log) : log[i] = line
OneTo(n) == [i \in 1..n |-> i]
StartsWith(s, prefix) == Len(s) >= Len(prefix) /\ SubSeq(s, 1, Len(prefix)) = prefix
HasBoth(b) == ~IsNone(b.title) /\ ~IsNone(b.address)
NonEmptyText(o) == ~IsNone(o) /\ Get(o) # <<>>

(***************************************************************************)
(* C1: whatever HTTP responses the pages get (failure statuses, success    *)
(* with no result block, success with blocks), the pages 1, 2, ...,        *)
(* max_pages are requested in increasing order, each once, the scan never  *)
(* stops before page max_pages, and completion is printed only after page  *)
(* max_pages has been handled.                                             *)
(***************************************************************************)
C1_ScansEveryPage ==
    (\A i \in 1..Len(served) : served[i].kind = "http")
        => /\ requests = OneTo(Len(requests))
           /\ Len(requests) <= MaxPages
           /\ Stopped => requests = OneTo(MaxPages)
           /\ Completed => requests = OneTo(MaxPages)

(***************************************************************************)
(* C2: the list scrape_data returns is the concatenation, in page order    *)
(* and then in block order, of the records of the blocks that are on a     *)
(* page with the success status and have both a title and an address       *)
(* element; a page with a failure status or without result blocks adds no  *)
(* record and gets a diagnostic line.                                      *)
(***************************************************************************)
RECURSIVE RecordsOfBlocks(_)
RecordsOfBlocks(blocks) ==
    IF blocks = <<>> THEN <<>>
    ELSE (IF HasBoth(Head(blocks))
          THEN <<Get(ClinicExtractor(Head(blocks)).ret)>> ELSE <<>>)
         \o RecordsOfBlocks(Tail(blocks))

RECURSIVE RecordsOfPages(_)
RecordsOfPages(responses) ==
    IF responses = <<>> THEN <<>>
    ELSE (IF Head(responses).kind = "http" /\ Head(responses).status = StatusOK
          THEN RecordsOfBlocks(Head(responses).blocks) ELSE <<>>)
         \o RecordsOfPages(Tail(responses))

C2_ReturnsRecordsInOrder ==
    pc \in {"write", "exited"}
        => /\ clinics = RecordsOfPages(served)
           /\ \A i \in 1..Len(served) :
                /\ served[i].status # StatusOK => Printed(FailedLine(i))
                /\ (served[i].status = StatusOK /\ served[i].blocks = <<>>)
                       => Printed(NoResultsLine(i))

C2_Witness ==
    /\ pc = "write"
    /\ served = <<Http(404, <<>>), Http(StatusOK, <<FullBlock, BareBlock>>),
                  Http(StatusOK, <<>>)>>
    /\ Len(clinics) = 2
    /\ clinics[1].name = Some(<<"A">>)
    /\ clinics[2].name = Some(TitlePlain)
    /\ Printed(FailedLine(1))
    /\ Printed(NoResultsLine(3))

(***************************************************************************)
(* C3: every record in the accumulator has a non-empty name and a          *)
(* non-empty address.                                                      *)
(***************************************************************************)
C3_RecordsHaveNameAndAddress ==
    \A i \in 1..Len(clinics) :
        NonEmptyText(clinics[i].name) /\ NonEmptyText(clinics[i].address)

(***************************************************************************)
(* C4: when the GET of page n fails at transport level, page n is skipped  *)
(* and the run goes on with page n + 1.                                    *)
(***************************************************************************)
C4_TransportFailureSkipsPage ==
    (served # <<>> /\ served[Len(served)].kind = "transport")
        => /\ pc # "faulted"
           /\ page_num = requests[Len(requests)] + 1

(***************************************************************************)
(* C5: nothing, the header row included, is written to the output file     *)
(* while a page in 1..max_pages is still unfetched.                        *)
(***************************************************************************)
C5_NothingWrittenDuringScan ==
    (pc # "open" /\ Len(requests) < MaxPages) => file = <<>>

(***************************************************************************)
(* C5 as amended: the header row is written before the scan starts and no  *)
(* other row is written while the scan is in progress; a row of a record   *)
(* is in the file only after the last page has been handled and completion *)
(* has been printed.                                                       *)
(***************************************************************************)
C5_OnlyHeaderDuringScan ==
    /\ pc \in {"scrape", "fetch", "blocks"} => file = <<HeaderRow>>
    /\ (pc # "open" /\ Len(requests) < MaxPages) => file \in {<<>>, <<HeaderRow>>}
    /\ (pc # "open" /\ Len(file) > 1)
           => pc \in {"write", "exited"} /\ Completed /\ requests = OneTo(MaxPages)

C5_Witness ==
    /\ pc = "blocks"
    /\ Len(requests) < MaxPages
    /\ clinics # <<>>
    /\ file = <<HeaderRow>>

(***************************************************************************)
(* C6: if every GET returns a response and no unhandled fault occurs, the  *)
(* run terminates after max_pages requests, and the file then holds the    *)
(* header row of the seven field names followed by one row per record of   *)
(* the accumulator, in its order, an absent field being an empty cell.     *)
(***************************************************************************)
TextOrEmpty(o) == IF o = None THEN <<>> ELSE o[1]

RowOfRecord(c) ==
    <<TextOrEmpty(c.name), TextOrEmpty(c.address), TextOrEmpty(c.postcode),
      TextOrEmpty(c.city), TextOrEmpty(c.phone),
      TextOrEmpty(c.data_overlay_label), TextOrEmpty(c.website)>>

SevenNames ==
    <<FieldText.name, FieldText.address, FieldText.postcode, FieldText.city,
      FieldText.phone, FieldText.data_overlay_label, FieldText.website>>

FileIsHeaderAndRows ==
    /\ Len(file) = Len(clinics) + 1
    /\ file[1] = SevenNames
    /\ \A k \in 1..Len(clinics) : file[k + 1] = RowOfRecord(clinics[k])

C6_TerminatesWithFile ==
    /\ <>(pc \in {"exited", "faulted"})
    /\ [](pc = "exited" => (requests = OneTo(MaxPages) /\ FileIsHeaderAndRows))

C6_Witness ==
    /\ pc = "exited"
    /\ Len(file) >= 3
    /\ \E k \in 1..Len(clinics) : clinics[k].phone = None /\ file[k + 1][5] = <<>>

(***************************************************************************)
(* C7: for a block that lacks its title or its address element,            *)
(* ClinicExtractor.extract returns None without a fault and prints exactly *)
(* one diagnostic; the accumulator is unchanged and the block loop goes on *)
(* to the next block of the page.                                          *)
(***************************************************************************)
C7_MissingRequiredDropsBlock ==
    [][(pc = "blocks" /\ ~HasBoth(results[idx]))
          => /\ pc' # "faulted"
             /\ clinics' = clinics
             /\ Len(log') = Len(log) + 1
             /\ log'[Len(log')].msg \in {NameDiagnostic, AddressDiagnostic}
             /\ idx < Len(results)
                    => (pc' = "blocks" /\ idx' = idx + 1 /\ results' = results)]_vars

C7_Witness ==
    /\ pc = "blocks"
    /\ idx = 2
    /\ IsNone(results[1].title)
    /\ IsNone(results[1].address)
    /\ results[1].anchors # <<>>
    /\ clinics = <<>>
    /\ log[Len(log)].msg = NameDiagnostic

(***************************************************************************)
(* C8: for a block with a title and a non-empty address, no anchor whose   *)
(* href is a "tel:" link and no anchor whose href starts with "http", the  *)
(* record has phone, data_overlay_label and website absent, and postcode   *)
(* and city are derived from the address text.                             *)
(***************************************************************************)
TelPrefix == <<"t", "e", "l", ":">>

NoTelNoHttp(b) ==
    \A i \in 1..Len(b.anchors) :
        IsNone(b.anchors[i].href)
            \/ (/\ ~StartsWith(Get(b.anchors[i].href), TelPrefix)
                /\ ~StartsWith(Get(b.anchors[i].href), HttpPattern))

C8_NoContactWithoutLinks ==
    (/\ pc = "blocks" /\ page_num = 1 /\ idx = 2
     /\ HasBoth(results[1])
     /\ Strip(Get(results[1].address)) # <<>>
     /\ NoTelNoHttp(results[1]))
        => /\ Len(clinics) = 1
           /\ clinics[1].phone = None
           /\ clinics[1].data_overlay_label = None
           /\ clinics[1].website = None
           /\ clinics[1].postcode = PostalCodeExtractor(Get(results[1].address))
           /\ clinics[1].city = Some(CityExtractor(Get(results[1].address)).value)

(***************************************************************************)
(* C9: PostalCodeExtractor.extract returns the leftmost run of exactly     *)
(* four digits that has a non-digit character or a string edge on each     *)
(* side, and None exactly when the text has no such run.                   *)
(***************************************************************************)
FourDigitsAt(s, i) == i + 3 <= Len(s) /\ \A k \in i..(i + 3) : IsDigit(s[k])

DigitBoundedRuns(s) ==
    {i \in 1..Len(s) :
        /\ FourDigitsAt(s, i)
        /\ (i = 1 \/ ~IsDigit(s[i - 1]))
        /\ (i + 3 = Len(s) \/ ~IsDigit(s[i + 4]))}

Leftmost(s, starts) ==
    IF starts = {} THEN None
    ELSE LET i == CHOOSE j \in starts : \A k \in starts : j <= k
         IN  Some(SubSeq(s, i, i + 3))

C9_FirstDigitBoundedRun ==
    pc = "postal_done" => postal_code = Leftmost(address, DigitBoundedRuns(address))

(***************************************************************************)
(* C9 as amended: the run returned is the leftmost run of exactly four     *)
(* digits that has, on each side, a string edge or a character that is     *)
(* neither a letter, a digit nor an underscore; None exactly when the text *)
(* has no such run.                                                        *)
(***************************************************************************)
WordBoundedRuns(s) ==
    {i \in 1..Len(s) :
        /\ FourDigitsAt(s, i)
        /\ (i = 1 \/ ~IsWord(s[i - 1]))
        /\ (i + 3 = Len(s) \/ ~IsWord(s[i + 4]))}

C9_FirstWordBoundedRun ==
    pc = "postal_done" => postal_code = Leftmost(address, WordBoundedRuns(address))

C9_Witness ==
    /\ pc = "postal_done"
    /\ address = <<"a", "1", "2", "3", "4", " ", "5", "6", "7", "8">>
    /\ postal_code = Some(<<"5", "6", "7", "8">>)

(***************************************************************************)
(* C10: a block with a title element and an address element whose trimmed  *)
(* text is empty stops the run with an unhandled fault: no later block or  *)
(* page is processed, completion is not printed, and the file keeps at     *)
(* most the header row.                                                    *)
(***************************************************************************)
C10_BlankAddressStopsRun ==
    [][/\ pc # "faulted"
       /\ (/\ pc = "blocks"
           /\ HasBoth(results[idx])
           /\ Strip(Get(results[idx].address)) = <<>>)
              => (pc' = "faulted" /\ clinics' = clinics /\ requests' = requests)
       /\ pc' = "faulted" => (file' = <<HeaderRow>> /\ ~Completed')]_vars

C10_Witness ==
    /\ pc = "faulted"
    /\ served[Len(served)].kind = "http"
    /\ results[idx] = BlankAddressBlock
    /\ idx < Len(results)
    /\ Len(requests) < MaxPages
    /\ clinics # <<>>
    /\ file = <<HeaderRow>>
    /\ ~Completed

====
